---- MODULE Spec2Model ----
(***************************************************************************)
(* Model of src/app.py: the TENEX -> MEDICAR reconciliation service.       *)
(*                                                                         *)
(* A webhook request is an asyncio task.  Every "await" of a remote call   *)
(* or of asyncio.sleep is a suspension point; the code between two         *)
(* suspension points runs without interruption.  Each action below is the  *)
(* code that runs when one awaited call returns (or raises), up to the     *)
(* next await.  The registry (TENEX) and the back office (MEDICAR) are     *)
(* external: what they answer is chosen with \E from small sets.           *)
(*                                                                         *)
(* Strings whose content the code inspects (cpf, names) are sequences of   *)
(* one-character strings; None and "" are both the empty sequence (the     *)
(* code only ever tests them with "not x" / "x or ''").                    *)
(***************************************************************************)
EXTENDS Integers, Sequences, FiniteSets, TLC

VARIABLES
    TENANT_ID,   \* os.getenv("TENANT_ID"), <<>> when it is not set
    ledger,      \* table clientes_excluidos: a set of rows
    tokenCache,  \* _token_cache: TRUE when a token is cached
    req          \* one record of locals per webhook request in flight

vars == <<TENANT_ID, ledger, tokenCache, req>>

\* what the request handlers never write
config == <<TENANT_ID>>

----------------------------------------------------------------------------
(* Bounds of the model *)

\* longest batch (JSON list) a webhook call carries
MaxBatch == 2

(* Program constants *)

\* range(5) in the poll loop of process_novo_cliente_item
PollAttempts == 5

\* tries, delay = 3, 1.0 and min(delay * 2, 6) in httpx_retry
tries == 3
delay_max == 6

\* the only status value that selects the exclusion flow
StatusInativo == 2

----------------------------------------------------------------------------
(* UTIL: only_digits, only_ascii_upper *)

Digits == {"0", "1", "2", "3", "4", "5", "6", "7", "8", "9"}

IsDigit(c) == c \in Digits

\* re.sub(r"\D", "", s or "")
only_digits(s) == SelectSeq(s, IsDigit)

\* the characters with an ASCII encoding, among those the model uses
IsAscii(c) == c # "é"

\* str.upper on one character
UpperChar(c) ==
    CASE c = "a" -> "A"
      [] c = "b" -> "B"
      [] OTHER -> c

RECURSIVE LStrip(_)
LStrip(s) == IF s # <<>> /\ Head(s) = " " THEN LStrip(Tail(s)) ELSE s

RECURSIVE RStrip(_)
RStrip(s) ==
    IF s # <<>> /\ s[Len(s)] = " " THEN RStrip(SubSeq(s, 1, Len(s) - 1)) ELSE s

\* (s or "").encode("ascii", errors="ignore").decode().upper().strip()
only_ascii_upper(s) ==
    LET ascii == SelectSeq(s, IsAscii)
        upper == [k \in 1..Len(ascii) |-> UpperChar(ascii[k])]
    IN  LStrip(RStrip(upper))

\* str.lower on the operation names the model uses
Lower(op) == IF op = "Update" THEN "update" ELSE op

----------------------------------------------------------------------------
(* CONFIG *)

\* PLAN_MAPPING_JSON default: plans 34 and 35 are mapped
PLAN_MAPPING_JSON ==
    [k \in {34, 35} |-> [codpro |-> "0066", versao |-> "001"]]

\* PLAN_MAPPING_JSON.get(str(id_plano)): TRUE when the plan has an entry
PlanMapped(id_plano) == id_plano \in DOMAIN PLAN_MAPPING_JSON

----------------------------------------------------------------------------
(* Inputs: webhook bodies and the answers of the two external systems *)

\* header.operation values a webhook item may carry ("" is a missing one)
Operations == {"insert", "Update", ""}

Data(id, cpf, nome) == [id |-> id, cpf |-> cpf, nome |-> nome]

\* the "data" objects of webhook items; id 0 and cpf <<>> are missing fields
Datas ==
    { Data(1, <<"1", "-">>, <<"a">>),
      Data(2, <<"2">>, <<"a">>),
      Data(0, <<"1">>, <<"a">>),
      Data(1, <<>>, <<"a">>) }

Items == [operation : Operations, data : Datas]

RECURSIVE SeqsUpTo(_, _)
SeqsUpTo(S, n) ==
    IF n = 0 THEN {<<>>}
    ELSE LET shorter == SeqsUpTo(S, n - 1)
         IN  shorter \cup {Append(q, x) : q \in {t \in shorter : Len(t) = n - 1}, x \in S}

\* request bodies: non-empty lists of at most MaxBatch items
Batches == SeqsUpTo(Items, MaxBatch) \ {<<>>}

Pessoa(cpf, planos) == [cpf |-> cpf, planos_contratados |-> planos]

\* answers of GET carteira-virtual/<cpf>: a list of persons, each with the
\* ids of its contracted plans; c is the queried cpf (digits)
CarteiraAnswers(c) ==
    { <<>>,
      <<Pessoa(c, <<>>)>>,
      <<Pessoa(c \o <<"-">>, <<34>>)>>,
      <<Pessoa(c, <<99>>)>>,
      <<Pessoa(<<"9">>, <<34>>), Pessoa(c, <<>>)>>,
      <<Pessoa(<<"9">>, <<>>), Pessoa(c, <<34>>)>>,
      <<Pessoa(<<"9">>, <<99>>), Pessoa(c, <<34>>)>> }

Contato(principal, nome, cpf) == [principal |-> principal, nome |-> nome, cpf |-> cpf]

\* contact lists of a client whose cpf (digits) is c
ContatosAnswers(c) ==
    LET tit    == Contato("1", <<" ", "a">>, c \o <<".">>)
        titBad == Contato("1", <<"é">>, c)
        dep    == Contato("0", <<"b">>, <<"7", "-">>)
        depNo  == Contato("0", <<"b">>, <<>>)
    IN  { <<>>, <<tit>>, <<tit, dep>>, <<tit, depNo>>, <<depNo, tit, dep>>, <<titBad, dep>> }

\* status values of a registry client: 1 active, 2 inactive, 0 anything else
StatusValues == {0, 1, 2}

\* what the registry holds for the client of an event when the event
\* arrives: a status, or -1 when it has no such client
Upstreams == StatusValues \cup {-1}

\* the registry answers from what it holds
AnswersOf(upstream, answers) ==
    {a \in answers : IF upstream = -1 THEN ~a.found ELSE a.found /\ a.status = upstream}

\* answers of GET clientes/?id=..&_expand=contatos: no client (None) or
\* the first client of the list
ClienteAnswers(c) ==
    { [found |-> FALSE, status |-> 0, contatos |-> <<>>] }
    \cup [found : {TRUE}, status : StatusValues, contatos : ContatosAnswers(c)]

\* answers of GET client/v1/contract: BBA_MATRIC, <<>> when there is none
MatricAnswers == { <<>>, <<"M">> }

\* str(e) of the exception an outbound call raises: httpx names the URL,
\* and the titular and dependents submissions post to the same URL
ExcText(call) ==
    CASE call = "carteira"    -> "HTTP error for url /api/v2/carteira-virtual"
      [] call = "cliente"     -> "HTTP error for url /api/v2/clientes"
      [] call = "matric"      -> "HTTP error for url /client/v1/contract"
      [] call = "titular"     -> "HTTP error for url /fwmodel/PLIncBenModel"
      [] call = "dependentes" -> "HTTP error for url /fwmodel/PLIncBenModel"
      [] call = "cancelar"    -> "HTTP error for url /beneficiaries/blockProtocol"
      [] call = "db"          -> "sqlite3 error"
      [] OTHER                -> "list index out of range"

----------------------------------------------------------------------------
(* DB: clientes_excluidos *)

\* timestamps datetime.utcnow() may give
Times == {1, 2}

\* a plain INSERT into a table without a key: the rows of the client stay
db_salvar_acrescenta(t, id_cliente, cpf, now) ==
    t \cup {[id_cliente |-> id_cliente, cpf |-> cpf, data_exclusao |-> now]}

\* INSERT OR REPLACE: id_cliente is the primary key, the row of the same
\* key is replaced
db_salvar_excluido(t, id_cliente, cpf, now) ==
    {row \in t : row.id_cliente # id_cliente}
        \cup {[id_cliente |-> id_cliente, cpf |-> cpf, data_exclusao |-> now]}

\* SELECT ... WHERE id_cliente = ?: the rows found (fetchone takes one)
db_buscar_excluido(t, id_cliente) == {row \in t : row.id_cliente = id_cliente}

\* a removal that deletes nothing
db_remover_nada(t, id_cliente) == t

\* DELETE FROM clientes_excluidos WHERE id_cliente = ?
db_remover_excluido(t, id_cliente) == {row \in t : row.id_cliente # id_cliente}

----------------------------------------------------------------------------
(* State of one webhook request *)

\* no titular submission was built
NoPayload ==
    [BBA_EMPBEN |-> <<>>, BBA_CODPRO |-> "", BBA_VERSAO |-> "", BBA_CPFTIT |-> <<>>, B2N_CODPRO |-> ""]

\* the locals of one loop iteration, as they are before the item is read.
\* calls, oks, raised, queries and sleeps record what the iteration did: the calls
\* issued (each kind once, in the order of its first use), the kinds that
\* returned, and the registry queries and waits of the poll loop as long as
\* it has found no plan (the loop leaves through break with both cleared)
FreshLocals ==
    [ upstream          |-> -1,     \* the registry's record of the client, see Upstreams
      reentrada         |-> FALSE,  \* process_novo_cliente_item runs for a reactivation
      status_tenex      |-> -1,     \* status of the registry's answer, -1 before it
      excluido          |-> FALSE,  \* db_buscar_excluido found a row
      contatos          |-> <<>>,   \* the contact list, in the normal flow of the update webhook
      tentativa         |-> 0,      \* loop variable, not read after the loop
      plano_ok          |-> FALSE,  \* the poll loop left through break
      carteira          |-> <<>>,   \* the last answer to the poll loop, until the return
      id_plano          |-> 0,
      payload           |-> NoPayload,  \* the titular submission's plan and titular fields
      titular_dict      |-> [nome |-> <<>>, cpf |-> <<>>],
      dependentes_dicts |-> <<>>,
      matricula         |-> <<>>,
      calls             |-> <<>>,
      oks               |-> {},
      raised            |-> "",     \* the call whose exception ended the iteration
      queries           |-> 0,
      sleeps            |-> 0,
      retry_i           |-> 0,      \* httpx_retry's loop variable i for the awaited call
      retry_delay       |-> 1,      \* httpx_retry's delay
      retry_pc          |-> "" ]    \* where the call is awaited, while httpx_retry sleeps

Idle ==
    [ pc       |-> "idle",
      kind     |-> "none",   \* "novo": /webhook/novo-cliente, "dep": /webhook/dependentes,
                             \* "cancelar": /cancelar-por-cpf
      items    |-> <<>>,
      i        |-> 0,        \* number of items the loop has taken
      results  |-> <<>>,
      response |-> "none",   \* "ok": {"status": "ok", ...}, "erro": {"status": "erro", ...},
                             \* "erro_token": the webhooks' token error, "500": unhandled exception
      tenantid |-> <<>>,
      loc      |-> FreshLocals ]

\* the item of the current loop iteration and its fields
Item(r) == r.items[r.i]
Cpf(r) == Item(r).data.cpf
IdCliente(r) == Item(r).data.id

\* one element of results; ev is the iteration that produced it
Outcome(has_cpf, cpf, status, motivo) ==
    [ has_cpf   |-> has_cpf,   \* the dict has a "cpf" key
      cpf       |-> cpf,
      status    |-> status,
      motivo    |-> motivo,    \* the "motivo" / "erro" text, or what was done
      reentrada |-> FALSE,
      ev        |-> 0 ]

PrependResult(r, o) ==
    [r EXCEPT !.results = <<[o EXCEPT !.ev = r.i]>> \o @, !.pc = "loop", !.loc.carteira = <<>>,
              !.loc.contatos = <<>>]

\* results.append(...) followed by continue (or by the end of the loop body)
AppendResult(r, o) ==
    [r EXCEPT !.results = Append(@, [o EXCEPT !.ev = r.i]), !.pc = "loop", !.loc.carteira = <<>>,
              !.loc.contatos = <<>>]

\* the coroutine awaits an outbound call: it is logged and the task suspends
Await(r, call, pc) ==
    [r EXCEPT !.pc = pc, !.loc.retry_i = 0, !.loc.retry_delay = 1,
              !.loc.calls = IF \E k \in 1..Len(@) : @[k] = call THEN @ ELSE Append(@, call)]

\* the awaited call returned without raising
Returned(r, call) == [r EXCEPT !.loc.oks = @ \cup {call}]

Init ==
    /\ TENANT_ID = <<"T">>
    /\ ledger = {}
    /\ tokenCache = FALSE
    /\ req = [p \in {1} |-> Idle]

----------------------------------------------------------------------------
(* Webhook entry: body, token, tenant *)

\* a webhook call arrives: body = await request.json(); await medicar_get_token()
Receive(p) ==
    /\ req[p].pc = "idle"
    /\ \E kind \in {"novo", "dep"}, items \in Batches :
          req' = [req EXCEPT ![p] = [Idle EXCEPT !.pc = "token", !.kind = kind, !.items = items]]
    /\ UNCHANGED <<config, ledger, tokenCache>>

\* /cancelar-por-cpf is called: cpf_digits = only_digits(cpf); await medicar_get_token()
ReceiveCancelar(p) ==
    /\ req[p].pc = "idle"
    /\ \E cpf \in {<<"1", "-">>, <<"2">>} :
          req' = [req EXCEPT ![p] = [Idle EXCEPT !.pc = "token", !.kind = "cancelar", !.i = 1,
                                       !.items = <<[operation |-> "", data |-> Data(0, cpf, <<>>)]>>]]
    /\ UNCHANGED <<config, ledger, tokenCache>>

\* the caller of medicar_get_token has its token: the webhooks go on to the
\* tenant, /cancelar-por-cpf to the membership lookup
AfterToken(r) ==
    IF r.kind = "cancelar" THEN Await(r, "matric", "man_matric") ELSE [r EXCEPT !.pc = "tenant"]

\* medicar_get_token raised: the webhooks catch it and return {"status": "erro"},
\* /cancelar-por-cpf lets it through
TokenFailed(r) ==
    [r EXCEPT !.pc = "done", !.response = IF r.kind = "cancelar" THEN "500" ELSE "erro_token"]

\* medicar_get_token up to its await: a cached token that has not expired is
\* returned, otherwise the token endpoint is called
TokenCheck(p) ==
    /\ req[p].pc = "token"
    /\ \E expired \in BOOLEAN :
          req' = [req EXCEPT ![p] = IF tokenCache /\ ~expired THEN AfterToken(req[p])
                                    ELSE [req[p] EXCEPT !.pc = "token_post"]]
    /\ UNCHANGED <<config, ledger, tokenCache>>

\* the token endpoint answers: a token is cached, or the call (or a missing
\* access_token) raises and the webhook returns {"status": "erro"}
TokenPost(p) ==
    /\ req[p].pc = "token_post"
    /\ \E ok \in BOOLEAN :
          IF ok
          THEN /\ tokenCache' = TRUE
               /\ req' = [req EXCEPT ![p] = AfterToken(req[p])]
          ELSE /\ UNCHANGED tokenCache
               /\ req' = [req EXCEPT ![p] = TokenFailed(req[p])]
    /\ UNCHANGED <<config, ledger>>

\* tenantid = TENANT_ID; without it the default contract is fetched
Tenant(p) ==
    /\ req[p].pc = "tenant"
    /\ req' = [req EXCEPT ![p].pc = IF TENANT_ID # <<>> THEN "loop" ELSE "tenant_contract",
                          ![p].tenantid = TENANT_ID]
    /\ UNCHANGED <<config, ledger, tokenCache>>

\* contr = await medicar_get_contract(token) returns: tenantid is the
\* answer's tenantid, None when the answer has none or the call raised
TenantAnswer(p) ==
    /\ req[p].pc = "tenant_contract"
    /\ \E tenantid \in {<<>>, <<"T">>} :
          req' = [req EXCEPT ![p].pc = "loop", ![p].tenantid = tenantid]
    /\ UNCHANGED <<config, ledger, tokenCache>>

----------------------------------------------------------------------------
(* The loop over the items, up to the first await of an iteration *)

\* {"status": "erro", "motivo": ..., "data": data}: the item's data, and
\* with it the cpf the item has, is part of the dict
SemCpfOuId(r, motivo) == Outcome(Cpf(r) # <<>>, Cpf(r), "erro", motivo)

\* {"status": "ignorado", "motivo": ..., "raw_header": header}: no cpf
OperationIgnorada(motivo) == Outcome(FALSE, <<>>, "ignorado", motivo)

\* process_novo_cliente_item up to its first await
EnterNovo(r) ==
    IF Cpf(r) = <<>> \/ IdCliente(r) = 0
    THEN AppendResult(r, SemCpfOuId(r, "Webhook sem cpf ou id_cliente em data"))
    ELSE Await([r EXCEPT !.loc.queries = 1], "carteira", "poll_query")

\* the head of webhook_novo_cliente's loop body
NovoItem(r) ==
    LET op == Lower(Item(r).operation)
    IN  IF op # "" /\ op # "insert"
        THEN AppendResult(r, OperationIgnorada("operation diferente de insert"))
        ELSE EnterNovo(r)

\* the head of webhook_dependentes' loop body
DepItem(r) ==
    LET op == Lower(Item(r).operation)
    IN  IF op # "update"
        THEN AppendResult(r, OperationIgnorada("operation diferente de update"))
        ELSE IF Cpf(r) = <<>> \/ IdCliente(r) = 0
        THEN AppendResult(r, SemCpfOuId(r, "Webhook sem cpf ou id_cliente"))
        ELSE Await(r, "cliente", "dep_cliente")

\* for item in items: the next item is taken
NextItem(p) ==
    /\ req[p].pc = "loop"
    /\ req[p].i < Len(req[p].items)
    /\ \E upstream \in Upstreams :
         LET r == [req[p] EXCEPT !.i = @ + 1, !.loc = [FreshLocals EXCEPT !.upstream = upstream]]
         IN  req' = [req EXCEPT ![p] = IF r.kind = "novo" THEN NovoItem(r) ELSE DepItem(r)]
    /\ UNCHANGED <<config, ledger, tokenCache>>

\* the loop is over: return {"status": "ok", "resultados": results}
Respond(p) ==
    /\ req[p].pc = "loop"
    /\ req[p].i = Len(req[p].items)
    /\ req' = [req EXCEPT ![p].pc = "done", ![p].response = "ok", ![p].loc = FreshLocals]
    /\ UNCHANGED <<config, ledger, tokenCache>>

\* the response has been sent; the task and its locals are gone
Close(p) ==
    /\ req[p].pc = "done"
    /\ req' = [req EXCEPT ![p] = Idle]
    /\ UNCHANGED <<config, ledger, tokenCache>>

----------------------------------------------------------------------------
(* Plan of a registry answer; titular and dependents of a contact list *)

\* carteira and carteira[0].get("planos_contratados")
HasPlan(carteira) ==
    carteira # <<>> /\ carteira[1].planos_contratados # <<>>

\* next((p for p in carteira if only_digits(p["cpf"]) == only_digits(cpf)), carteira[0])
SelectPessoa(carteira, cpf) ==
    LET hits == {k \in 1..Len(carteira) : only_digits(carteira[k].cpf) = only_digits(cpf)}
    IN  IF hits = {} THEN carteira[1]
        ELSE carteira[CHOOSE k \in hits : \A j \in hits : k <= j]

\* pessoa["planos_contratados"][0] raises IndexError on an empty list
PlanoIndexError(carteira, cpf) ==
    SelectPessoa(carteira, cpf).planos_contratados = <<>>

\* id_plano = pessoa["planos_contratados"][0]["id_plano"]
IdPlano(carteira, cpf) == SelectPessoa(carteira, cpf).planos_contratados[1]

\* next((c for c in contatos if str(c.get("principal")) == "1"), None)
Principal(contatos) ==
    LET hits == {k \in 1..Len(contatos) : contatos[k].principal = "1"}
    IN  IF hits = {} THEN <<>>
        ELSE <<contatos[CHOOSE k \in hits : \A j \in hits : k <= j]>>

\* titular_dict: the principal contact, or the webhook's data without one
TitularDict(contatos, data) ==
    LET tit == Principal(contatos)
        src == IF tit # <<>> THEN tit[1] ELSE data
    IN  [nome |-> only_ascii_upper(src.nome), cpf |-> only_digits(src.cpf)]

\* every non-principal contact counts, with or without a cpf
IsDependenteSemTeste(c) == c.principal = "0"

\* str(dep.get("principal")) == "0" and dep.get("cpf")
IsDependente(c) == c.principal = "0" /\ c.cpf # <<>>

\* dependentes_dicts: the non-principal contacts that carry a cpf
DependentesDicts(contatos) ==
    LET deps == SelectSeq(contatos, IsDependente)
    IN  [k \in 1..Len(deps) |->
            [nome |-> only_ascii_upper(deps[k].nome), cpf |-> only_digits(deps[k].cpf)]]

\* not titular_dict["nome"] or not titular_dict["cpf"]
TitularInvalido(t) == t.nome = <<>> \/ t.cpf = <<>>

----------------------------------------------------------------------------
(* process_novo_cliente_item, one action per awaited call *)

\* the result dicts of process_novo_cliente_item; cpf is the item's cpf as
\* received, except in the cadastrado dict, which has the titular's digits
NovoErro(r, motivo) == Outcome(TRUE, Cpf(r), "erro", motivo)
NovoIgnorado(r, motivo) == Outcome(TRUE, Cpf(r), "ignorado", motivo)
NovoCadastrado(r, motivo) == Outcome(TRUE, r.loc.titular_dict.cpf, "cadastrado", motivo)

\* the dicts webhook_dependentes appends; cpf is cpf_digits
DepErro(r, motivo) == Outcome(TRUE, only_digits(Cpf(r)), "erro", motivo)
DepIgnorado(r, motivo) == Outcome(TRUE, only_digits(Cpf(r)), "ignorado", motivo)
DepDone(r, status, motivo) == Outcome(TRUE, only_digits(Cpf(r)), status, motivo)

\* the step a handler of webhook_dependentes decided on: res is <<"go", r>>
\* (suspended on the next call) or <<"out", r, out>> (results.append, continue)
DepStep(p, res) ==
    req' = [req EXCEPT ![p] = IF res[1] = "go" THEN res[2] ELSE AppendResult(res[2], res[3])]

\* except Exception as e, in process_novo_cliente_item: return the erro dict
NovoExcept(r, call) ==
    <<"ret", [r EXCEPT !.loc.raised = call], NovoErro(r, ExcText(call))>>

\* the exception leaves webhook_dependentes: the request ends without results
DepExceptAbort(r, call) ==
    <<"go", [r EXCEPT !.loc.raised = call, !.pc = "done", !.response = "erro_500"]>>

\* except Exception as e, in webhook_dependentes: results.append(erro dict)
DepExcept(r, call) ==
    <<"out", [r EXCEPT !.loc.raised = call], DepErro(r, ExcText(call))>>

\* the ledger row is removed only after an enrollment that ended in cadastrado
NovoReturnSoSucesso(p, r, out) ==
    IF ~r.loc.reentrada
    THEN /\ req' = [req EXCEPT ![p] = AppendResult(r, out)]
         /\ UNCHANGED ledger
    ELSE IF out.status # "cadastrado"
    THEN /\ req' = [req EXCEPT ![p] = AppendResult(r, [out EXCEPT !.reentrada = TRUE])]
         /\ UNCHANGED ledger
    ELSE /\ ledger' = db_remover_excluido(ledger, IdCliente(r))
         /\ req' = [req EXCEPT ![p] =
                AppendResult(Returned([r EXCEPT !.loc.calls = Append(@, "db_remover")], "db_remover"),
                             [out EXCEPT !.reentrada = TRUE])]

\* the ledger row of the client is removed after every enrollment path, that
\* of an insert event too
NovoReturnRemove(p, r, out) ==
    /\ ledger' = db_remover_excluido(ledger, IdCliente(r))
    /\ req' = [req EXCEPT ![p] = AppendResult(r, [out EXCEPT !.reentrada = r.loc.reentrada])]

\* process_novo_cliente_item returns out.  In webhook_novo_cliente the result
\* is appended.  In the reactivation branch of webhook_dependentes the ledger
\* row is removed first and the result is flagged; if the removal raises,
\* the except clause of webhook_dependentes appends an erro instead.
NovoReturn(p, r, out) ==
    IF ~r.loc.reentrada
    THEN /\ req' = [req EXCEPT ![p] = AppendResult(r, out)]
         /\ UNCHANGED ledger
    ELSE \E dbok \in BOOLEAN :
            LET r1 == [r EXCEPT !.loc.calls = Append(@, "db_remover")]
            IN  IF dbok
                THEN /\ ledger' = db_remover_excluido(ledger, IdCliente(r))
                     /\ req' = [req EXCEPT ![p] =
                            AppendResult(Returned(r1, "db_remover"), [out EXCEPT !.reentrada = TRUE])]
                ELSE /\ UNCHANGED ledger
                     /\ DepStep(p, DepExcept(r1, "db"))

\* the step a handler of process_novo_cliente_item decided on: res is
\* <<"go", r>> (suspended on the next call) or <<"ret", r, out>> (returned)
NovoStep(p, res) ==
    /\ IF res[1] = "go"
       THEN /\ req' = [req EXCEPT ![p] = res[2]]
            /\ UNCHANGED ledger
       ELSE NovoReturn(p, res[2], res[3])
    /\ UNCHANGED <<config, tokenCache>>

\* after the poll loop: the plan of the selected person and its mapping
NovoAfterPoll(r, carteira) ==
    IF PlanoIndexError(carteira, Cpf(r))
    THEN NovoExcept(r, "index")
    ELSE LET id_plano == IdPlano(carteira, Cpf(r))
             r1 == [r EXCEPT !.loc.id_plano = id_plano, !.loc.carteira = carteira]
         IN  IF ~PlanMapped(id_plano)
             THEN <<"ret", r1, NovoIgnorado(r1, "plano nao mapeado")>>
             ELSE <<"go", Await(r1, "cliente", "novo_cliente")>>

\* break: the loop is left with a plan
PollBreak(r) ==
    [r EXCEPT !.loc.plano_ok = TRUE, !.loc.tentativa = 0,
              !.loc.queries = 0, !.loc.sleeps = 0]

\* carteira = await tenex_get_carteira(cpf) returns inside the poll loop
PollAnswer(p) ==
    /\ req[p].pc = "poll_query"
    /\ \/ NovoStep(p, NovoExcept(req[p], "carteira"))
       \/ \E carteira \in CarteiraAnswers(only_digits(Cpf(req[p]))) :
            LET r == [Returned(req[p], "carteira") EXCEPT !.loc.carteira = carteira]
            IN  IF HasPlan(carteira)
                THEN NovoStep(p, NovoAfterPoll(PollBreak(r), carteira))
                ELSE NovoStep(p, <<"go", [r EXCEPT !.pc = "poll_sleep"]>>)

\* a poll loop without a bound: after the wait the registry is asked again
NovoAfterSleepSemLimite(r) ==
    <<"go", Await(r, "carteira", "poll_query")>>

\* what follows await asyncio.sleep(60): the next attempt, or the end of the
\* loop with the last answer still without a plan
NovoAfterSleep(r) ==
    LET r1 == [r EXCEPT !.loc.sleeps = @ + 1, !.loc.tentativa = @ + 1]
    IN  IF r1.loc.tentativa < PollAttempts
        THEN <<"go", Await([r1 EXCEPT !.loc.queries = @ + 1], "carteira", "poll_query")>>
        ELSE <<"ret", r1, NovoIgnorado(r1, "Nenhum plano encontrado apos 5 tentativas")>>

\* await asyncio.sleep(60) ends
PollSleep(p) ==
    /\ req[p].pc = "poll_sleep"
    /\ NovoStep(p, NovoAfterSleep(req[p]))

\* the plan fields of the titular submission, codpro and versao exchanged
medicar_incluir_titular_trocado(titular, plano) ==
    [ BBA_EMPBEN |-> only_ascii_upper(titular.nome),
      BBA_CODPRO |-> plano.versao,
      BBA_VERSAO |-> plano.codpro,
      BBA_CPFTIT |-> only_digits(titular.cpf),
      B2N_CODPRO |-> plano.versao ]

\* the fields medicar_incluir_titular builds from titular and plano
medicar_incluir_titular(titular, plano) ==
    [ BBA_EMPBEN |-> only_ascii_upper(titular.nome),
      BBA_CODPRO |-> plano.codpro,
      BBA_VERSAO |-> plano.versao,
      BBA_CPFTIT |-> only_digits(titular.cpf),
      B2N_CODPRO |-> plano.codpro ]

\* the contact list arrived: titular and dependents are built and checked
NovoAfterCliente(r, answer) ==
    LET contatos == IF answer.found THEN answer.contatos ELSE <<>>
        tit      == TitularDict(contatos, Item(r).data)
        r1       == [r EXCEPT !.loc.titular_dict = tit,
                              !.loc.dependentes_dicts = DependentesDicts(contatos)]
    IN  IF TitularInvalido(tit)
        THEN <<"ret", r1, NovoErro(r1, "Titular invalido (sem nome/CPF)")>>
        ELSE <<"go", Await([r1 EXCEPT !.loc.payload =
                                   medicar_incluir_titular(tit, PLAN_MAPPING_JSON[r.loc.id_plano])],
                           "titular", "novo_titular")>>

\* cliente_expand = await tenex_get_cliente_com_contatos(id_cliente) returns
NovoClienteAnswer(p) ==
    /\ req[p].pc = "novo_cliente"
    /\ \/ NovoStep(p, NovoExcept(req[p], "cliente"))
       \/ \E answer \in ClienteAnswers(only_digits(Cpf(req[p]))) :
            NovoStep(p, NovoAfterCliente(Returned(req[p], "cliente"), answer))

\* the enrollment goes on to the membership lookup whatever the titular
\* submission answered
NovoAfterTitularSegue(r, ok) ==
    <<"go", Await(IF ok THEN Returned(r, "titular") ELSE r, "matric", "novo_matric")>>

\* resp_titular = await medicar_incluir_titular(...) returns or raises
NovoAfterTitular(r, ok) ==
    IF ok
    THEN <<"go", Await(Returned(r, "titular"), "matric", "novo_matric")>>
    ELSE NovoExcept(r, "titular")

NovoTitularAnswer(p) ==
    /\ req[p].pc = "novo_titular"
    /\ \E ok \in BOOLEAN : NovoStep(p, NovoAfterTitular(req[p], ok))

\* the enrollment goes on without testing BBA_MATRIC
NovoAfterMatricSemTeste(r, matricula) ==
    LET r1 == [r EXCEPT !.loc.matricula = matricula]
    IN  IF r1.loc.dependentes_dicts # <<>>
        THEN <<"go", Await(r1, "dependentes", "novo_deps")>>
        ELSE <<"ret", r1, NovoCadastrado(r1, "Nenhum dependente encontrado")>>

\* the membership lookup returned BBA_MATRIC (or none)
NovoAfterMatric(r, matricula) ==
    LET r1 == [r EXCEPT !.loc.matricula = matricula]
    IN  IF matricula = <<>>
        THEN <<"ret", r1, NovoErro(r1, "Titular criado mas matricula nao retornou (BBA_MATRIC vazio)")>>
        ELSE IF r1.loc.dependentes_dicts # <<>>
        THEN <<"go", Await(r1, "dependentes", "novo_deps")>>
        ELSE <<"ret", r1, NovoCadastrado(r1, "Nenhum dependente encontrado")>>

\* resp_mat = await httpx_retry("GET", url_mat, ...) returns or raises
NovoMatricAnswer(p) ==
    /\ req[p].pc = "novo_matric"
    /\ \/ NovoStep(p, NovoExcept(req[p], "matric"))
       \/ \E matricula \in MatricAnswers :
            NovoStep(p, NovoAfterMatric(Returned(req[p], "matric"), matricula))

\* resp_dep = await medicar_incluir_dependentes(...) returns or raises
NovoAfterDeps(r, ok) ==
    IF ok
    THEN <<"ret", Returned(r, "dependentes"), NovoCadastrado(r, "dependentes incluidos")>>
    ELSE NovoExcept(r, "dependentes")

NovoDepsAnswer(p) ==
    /\ req[p].pc = "novo_deps"
    /\ \E ok \in BOOLEAN : NovoStep(p, NovoAfterDeps(req[p], ok))

----------------------------------------------------------------------------
(* webhook_dependentes, one action per awaited call *)

\* the ledger is looked up before the status is tested
DepAfterClienteLedgerPrimeiro(r, answer, dbok) ==
    IF ~answer.found
    THEN <<"out", r, DepErro(r, "Cliente nao encontrado no TENEX")>>
    ELSE LET r1 == [r EXCEPT !.loc.status_tenex = answer.status]
             r2 == [r1 EXCEPT !.loc.calls = Append(@, "db_buscar")]
         IN  IF ~dbok
             THEN DepExcept(r2, "db")
             ELSE IF db_buscar_excluido(ledger, IdCliente(r)) # {}
             THEN <<"go", EnterNovo([Returned(r2, "db_buscar") EXCEPT
                                        !.loc.excluido = TRUE, !.loc.reentrada = TRUE])>>
             ELSE IF answer.status = StatusInativo
             THEN <<"go", Await(Returned(r2, "db_buscar"), "carteira", "exc_carteira")>>
             ELSE <<"go", Await([Returned(r2, "db_buscar") EXCEPT !.loc.contatos = answer.contatos],
                                "carteira", "upd_carteira")>>

\* only status 1 counts as active: every other status starts the exclusion flow
DepAfterClienteSoUm(r, answer, dbok) ==
    IF ~answer.found
    THEN <<"out", r, DepErro(r, "Cliente nao encontrado no TENEX")>>
    ELSE LET r1 == [r EXCEPT !.loc.status_tenex = answer.status]
             r2 == [r1 EXCEPT !.loc.calls = Append(@, "db_buscar")]
         IN  IF answer.status # 1
             THEN <<"go", Await(r1, "carteira", "exc_carteira")>>
             ELSE IF ~dbok
             THEN DepExcept(r2, "db")
             ELSE IF db_buscar_excluido(ledger, IdCliente(r)) # {}
             THEN <<"go", EnterNovo([Returned(r2, "db_buscar") EXCEPT
                                        !.loc.excluido = TRUE, !.loc.reentrada = TRUE])>>
             ELSE <<"go", Await([Returned(r2, "db_buscar") EXCEPT !.loc.contatos = answer.contatos],
                                "carteira", "upd_carteira")>>

\* the client arrived: status 2 starts the exclusion flow; otherwise the
\* ledger is looked up and a client found there is enrolled again
DepAfterCliente(r, answer, dbok) ==
    IF ~answer.found
    THEN <<"out", r, DepErro(r, "Cliente nao encontrado no TENEX")>>
    ELSE LET r1 == [r EXCEPT !.loc.status_tenex = answer.status]
             r2 == [r1 EXCEPT !.loc.calls = Append(@, "db_buscar")]
         IN  IF answer.status = StatusInativo
             THEN <<"go", Await(r1, "carteira", "exc_carteira")>>
             ELSE IF ~dbok
             THEN DepExcept(r2, "db")
             ELSE IF db_buscar_excluido(ledger, IdCliente(r)) # {}
             THEN <<"go", EnterNovo([Returned(r2, "db_buscar") EXCEPT
                                        !.loc.excluido = TRUE, !.loc.reentrada = TRUE])>>
             ELSE <<"go", Await([Returned(r2, "db_buscar") EXCEPT !.loc.contatos = answer.contatos],
                                "carteira", "upd_carteira")>>

\* cliente_expand = await tenex_get_cliente_com_contatos(id_cliente) returns
DepClienteAnswer(p) ==
    /\ req[p].pc = "dep_cliente"
    /\ \/ DepStep(p, DepExcept(req[p], "cliente"))
       \/ \E answer \in AnswersOf(req[p].loc.upstream, ClienteAnswers(only_digits(Cpf(req[p])))),
             dbok \in BOOLEAN :
            DepStep(p, DepAfterCliente(Returned(req[p], "cliente"), answer, dbok))
    /\ UNCHANGED <<config, ledger, tokenCache>>

\* exclusion flow: the plan check before the cancellation
ExcAfterCarteira(r, carteira) ==
    IF ~HasPlan(carteira)
    THEN <<"out", r, DepIgnorado(r, "Cliente sem plano ativo (exclusao)")>>
    ELSE IF PlanoIndexError(carteira, only_digits(Cpf(r)))
    THEN DepExcept(r, "index")
    ELSE LET id_plano == IdPlano(carteira, only_digits(Cpf(r)))
             r1 == [r EXCEPT !.loc.id_plano = id_plano]
         IN  IF ~PlanMapped(id_plano)
             THEN <<"out", r1, DepIgnorado(r1, "plano nao mapeado")>>
             ELSE <<"go", Await(r1, "matric", "exc_matric")>>

ExcCarteiraAnswer(p) ==
    /\ req[p].pc = "exc_carteira"
    /\ \/ DepStep(p, DepExcept(req[p], "carteira"))
       \/ \E carteira \in CarteiraAnswers(only_digits(Cpf(req[p]))) :
            DepStep(p, ExcAfterCarteira(Returned(req[p], "carteira"), carteira))
    /\ UNCHANGED <<config, ledger, tokenCache>>

\* exclusion flow: the membership number to cancel
ExcAfterMatric(r, subscriber_id) ==
    LET r1 == [r EXCEPT !.loc.matricula = subscriber_id]
    IN  IF subscriber_id = <<>>
        THEN <<"out", r1, DepIgnorado(r1, "Sem matricula para cancelar")>>
        ELSE <<"go", Await(r1, "cancelar", "exc_cancel")>>

ExcMatricAnswer(p) ==
    /\ req[p].pc = "exc_matric"
    /\ \/ DepStep(p, DepExcept(req[p], "matric"))
       \/ \E subscriber_id \in MatricAnswers :
            DepStep(p, ExcAfterMatric(Returned(req[p], "matric"), subscriber_id))
    /\ UNCHANGED <<config, ledger, tokenCache>>

\* the client is saved in the ledger although the cancellation raised
ExcCancelAnswerSalva(p) ==
    /\ req[p].pc = "exc_cancel"
    /\ \E now \in Times :
         ledger' = db_salvar_excluido(ledger, IdCliente(req[p]), only_digits(Cpf(req[p])), now)
    /\ DepStep(p, DepExcept(req[p], "cancelar"))
    /\ UNCHANGED <<config, tokenCache>>

\* resp_cancel = await medicar_encerrar_matricula(...) returns or raises;
\* after a cancellation the client is saved in the ledger
ExcCancelAnswer(p) ==
    /\ req[p].pc = "exc_cancel"
    /\ \/ /\ DepStep(p, DepExcept(req[p], "cancelar"))
          /\ UNCHANGED ledger
       \/ LET r == [Returned(req[p], "cancelar") EXCEPT !.loc.calls = Append(@, "db_salvar")]
          IN  \/ /\ DepStep(p, DepExcept(r, "db"))
                 /\ UNCHANGED ledger
              \/ \E now \in Times :
                   /\ ledger' = db_salvar_excluido(ledger, IdCliente(r), only_digits(Cpf(r)), now)
                   /\ DepStep(p, <<"out", Returned(r, "db_salvar"),
                                   DepDone(r, "cancelado", "matricula cancelada")>>)
    /\ UNCHANGED <<config, tokenCache>>

\* normal flow: the plan check, then the dependents of the contact list
UpdAfterCarteira(r, carteira) ==
    IF ~HasPlan(carteira)
    THEN <<"out", r, DepIgnorado(r, "Cliente sem plano ativo")>>
    ELSE IF PlanoIndexError(carteira, only_digits(Cpf(r)))
    THEN DepExcept(r, "index")
    ELSE LET id_plano == IdPlano(carteira, only_digits(Cpf(r)))
             r1 == [r EXCEPT !.loc.id_plano = id_plano,
                             !.loc.dependentes_dicts = DependentesDicts(r.loc.contatos)]
         IN  IF ~PlanMapped(id_plano)
             THEN <<"out", r1, DepIgnorado(r1, "plano nao mapeado")>>
             ELSE IF r1.loc.dependentes_dicts = <<>>
             THEN <<"out", r1, DepIgnorado(r1, "Nenhum dependente encontrado")>>
             ELSE <<"go", Await(r1, "matric", "upd_matric")>>

UpdCarteiraAnswer(p) ==
    /\ req[p].pc = "upd_carteira"
    /\ \/ DepStep(p, DepExcept(req[p], "carteira"))
       \/ \E carteira \in CarteiraAnswers(only_digits(Cpf(req[p]))) :
            DepStep(p, UpdAfterCarteira(Returned(req[p], "carteira"), carteira))
    /\ UNCHANGED <<config, ledger, tokenCache>>

\* normal flow: the membership number the dependents are attached to
UpdAfterMatric(r, matricula) ==
    LET r1 == [r EXCEPT !.loc.matricula = matricula]
    IN  IF matricula = <<>>
        THEN <<"out", r1, DepErro(r1, "Sem BBA_MATRIC para atualizacao")>>
        ELSE <<"go", Await(r1, "dependentes", "upd_deps")>>

UpdMatricAnswer(p) ==
    /\ req[p].pc = "upd_matric"
    /\ \/ DepStep(p, DepExcept(req[p], "matric"))
       \/ \E matricula \in MatricAnswers :
            DepStep(p, UpdAfterMatric(Returned(req[p], "matric"), matricula))
    /\ UNCHANGED <<config, ledger, tokenCache>>

\* resp_dep = await medicar_incluir_dependentes(...) returns or raises
UpdAfterDeps(r, ok) ==
    IF ok
    THEN <<"out", Returned(r, "dependentes"),
           DepDone(r, "dependentes_atualizados", "dependentes incluidos")>>
    ELSE DepExcept(r, "dependentes")

UpdDepsAnswer(p) ==
    /\ req[p].pc = "upd_deps"
    /\ \E ok \in BOOLEAN : DepStep(p, UpdAfterDeps(req[p], ok))
    /\ UNCHANGED <<config, ledger, tokenCache>>

----------------------------------------------------------------------------
(* Specification *)

----------------------------------------------------------------------------
(* /cancelar-por-cpf *)

\* the membership lookup of cancelar_por_cpf returns: without BBA_MATRIC the
\* answer is {"status": "erro", "mensagem": "Sem subscriberId"}; an exception
\* of httpx_retry is not caught
CancelarMatricAnswer(p) ==
    /\ req[p].pc = "man_matric"
    /\ \/ req' = [req EXCEPT ![p].pc = "done", ![p].response = "500", ![p].loc.raised = "matric"]
       \/ \E subscriberId \in MatricAnswers :
            LET r == [Returned(req[p], "matric") EXCEPT !.loc.matricula = subscriberId]
            IN  req' = [req EXCEPT ![p] =
                            IF subscriberId = <<>>
                            THEN [r EXCEPT !.pc = "done", !.response = "erro"]
                            ELSE Await(r, "cancelar", "man_cancel")]
    /\ UNCHANGED <<config, ledger, tokenCache>>

\* medicar_encerrar_matricula returns or raises; the ledger is not written
CancelarAnswer(p) ==
    /\ req[p].pc = "man_cancel"
    /\ \E ok \in BOOLEAN :
          req' = [req EXCEPT ![p] =
                      IF ok THEN [Returned(req[p], "cancelar") EXCEPT !.pc = "done", !.response = "ok"]
                      ELSE [req[p] EXCEPT !.pc = "done", !.response = "500", !.loc.raised = "cancelar"]]
    /\ UNCHANGED <<config, ledger, tokenCache>>

----------------------------------------------------------------------------
(* httpx_retry, attempt by attempt *)

\* the calls made through httpx_retry, and where they are awaited; the
\* titular and dependents submissions and the cancellation are one client.post
RetryCalls == {"carteira", "cliente", "matric"}

RetryPcs == {"poll_query", "novo_cliente", "novo_matric", "dep_cliente",
             "exc_carteira", "exc_matric", "upd_carteira", "upd_matric"}

CallOf(pc) ==
    CASE pc \in {"poll_query", "exc_carteira", "upd_carteira"} -> "carteira"
      [] pc \in {"novo_cliente", "dep_cliente"}                -> "cliente"
      [] pc \in {"novo_matric", "exc_matric", "upd_matric"}    -> "matric"
      [] pc = "novo_titular"                                   -> "titular"
      [] pc \in {"novo_deps", "upd_deps"}                      -> "dependentes"
      [] OTHER                                                 -> "cancelar"

\* the step of request p is the except clause for the call it awaits
Raises(p) ==
    IF req[p].pc \in {"poll_query", "novo_cliente", "novo_titular", "novo_matric", "novo_deps"}
    THEN NovoStep(p, NovoExcept(req[p], CallOf(req[p].pc)))
    ELSE /\ DepStep(p, DepExcept(req[p], CallOf(req[p].pc)))
         /\ UNCHANGED <<config, ledger, tokenCache>>

\* httpx_retry returns resp: the request did not fail
Returns(p) == req[p].pc \in RetryPcs => ~Raises(p)

\* except httpx.HTTPError in httpx_retry: the last try re-raises, an earlier
\* one awaits asyncio.sleep(delay)
HttpFalha(p) ==
    /\ req[p].pc \in RetryPcs
    /\ IF req[p].loc.retry_i = tries - 1
       THEN Raises(p)
       ELSE /\ req' = [req EXCEPT ![p].pc = "retry_sleep", ![p].loc.retry_pc = req[p].pc]
            /\ UNCHANGED <<config, ledger, tokenCache>>

\* asyncio.sleep(delay) ends: delay = min(delay * 2, 6) and the next try
HttpSleep(p) ==
    /\ req[p].pc = "retry_sleep"
    /\ req' = [req EXCEPT ![p].pc = req[p].loc.retry_pc,
                          ![p].loc.retry_pc = "",
                          ![p].loc.retry_i = @ + 1,
                          ![p].loc.retry_delay = IF @ * 2 < delay_max THEN @ * 2 ELSE delay_max]
    /\ UNCHANGED <<config, ledger, tokenCache>>

Procs == DOMAIN req

Next ==
    \/ \E p \in Procs : Receive(p)
    \/ \E p \in Procs : ReceiveCancelar(p)
    \/ \E p \in Procs : CancelarMatricAnswer(p)
    \/ \E p \in Procs : CancelarAnswer(p)
    \/ \E p \in Procs : TokenCheck(p)
    \/ \E p \in Procs : TokenPost(p)
    \/ \E p \in Procs : Tenant(p)
    \/ \E p \in Procs : NextItem(p)
    \/ \E p \in Procs : Respond(p)
    \/ \E p \in Procs : Close(p)
    \/ \E p \in Procs : PollAnswer(p)
    \/ \E p \in Procs : PollSleep(p)
    \/ \E p \in Procs : NovoClienteAnswer(p)
    \/ \E p \in Procs : NovoTitularAnswer(p)
    \/ \E p \in Procs : NovoMatricAnswer(p)
    \/ \E p \in Procs : NovoDepsAnswer(p)
    \/ \E p \in Procs : DepClienteAnswer(p)
    \/ \E p \in Procs : ExcCarteiraAnswer(p)
    \/ \E p \in Procs : ExcMatricAnswer(p)
    \/ \E p \in Procs : ExcCancelAnswer(p)
    \/ \E p \in Procs : UpdCarteiraAnswer(p)
    \/ \E p \in Procs : UpdMatricAnswer(p)
    \/ \E p \in Procs : UpdDepsAnswer(p)

Spec == Init /\ [][Next]_vars

\* the deployment without TENANT_ID: every webhook call fetches the default
\* contract for its tenant
InitTenant ==
    /\ TENANT_ID = <<>>
    /\ ledger = {}
    /\ tokenCache = FALSE
    /\ req = [p \in {1} |-> Idle]

NextTenant ==
    \/ Next
    \/ \E p \in Procs : TenantAnswer(p)

SpecTenant == InitTenant /\ [][NextTenant]_vars

\* two requests in one event loop, each a webhook call with one event of the
\* same client or a health check; the client may have been cancelled before
InitConc ==
    /\ TENANT_ID = <<"T">>
    /\ ledger \in {{}, db_salvar_excluido({}, 1, <<"1">>, 1)}
    /\ tokenCache \in BOOLEAN
    /\ req = [p \in {1, 2} |-> Idle]

\* a request accepted only while no other request sleeps between two polls
ReceiveConcBloqueado(p) ==
    /\ \A q \in Procs : req[q].pc # "poll_sleep"
    /\ req[p].pc = "idle"
    /\ \E kind \in {"novo", "dep"} :
          req' = [req EXCEPT ![p] = [Idle EXCEPT !.pc = "token", !.kind = kind,
                     !.items = <<[operation |-> IF kind = "novo" THEN "insert" ELSE "Update",
                                  data |-> Data(1, <<"1", "-">>, <<"a">>)]>>]]
    /\ UNCHANGED <<config, ledger, tokenCache>>

\* a webhook call arrives: an insert event at /webhook/novo-cliente or an
\* update event at /webhook/dependentes
ReceiveConc(p) ==
    /\ req[p].pc = "idle"
    /\ \E kind \in {"novo", "dep"} :
          req' = [req EXCEPT ![p] = [Idle EXCEPT !.pc = "token", !.kind = kind,
                     !.items = <<[operation |-> IF kind = "novo" THEN "insert" ELSE "Update",
                                  data |-> Data(1, <<"1", "-">>, <<"a">>)]>>]]
    /\ UNCHANGED <<config, ledger, tokenCache>>

\* GET /health: answered at once, no await, no state read or written
Health(p) ==
    /\ req[p].pc = "idle"
    /\ req' = [req EXCEPT ![p] = [Idle EXCEPT !.pc = "done", !.kind = "health", !.response = "online"]]
    /\ UNCHANGED <<config, ledger, tokenCache>>

NextConc ==
    \/ \E p \in Procs : ReceiveConc(p)
    \/ \E p \in Procs : Health(p)
    \/ \E p \in Procs : TokenCheck(p)
    \/ \E p \in Procs : TokenPost(p)
    \/ \E p \in Procs : Tenant(p)
    \/ \E p \in Procs : NextItem(p)
    \/ \E p \in Procs : Respond(p)
    \/ \E p \in Procs : PollAnswer(p)
    \/ \E p \in Procs : PollSleep(p)
    \/ \E p \in Procs : NovoClienteAnswer(p)
    \/ \E p \in Procs : NovoTitularAnswer(p)
    \/ \E p \in Procs : NovoMatricAnswer(p)
    \/ \E p \in Procs : NovoDepsAnswer(p)
    \/ \E p \in Procs : DepClienteAnswer(p)
    \/ \E p \in Procs : ExcCarteiraAnswer(p)
    \/ \E p \in Procs : ExcMatricAnswer(p)
    \/ \E p \in Procs : ExcCancelAnswer(p)
    \/ \E p \in Procs : UpdCarteiraAnswer(p)
    \/ \E p \in Procs : UpdMatricAnswer(p)
    \/ \E p \in Procs : UpdDepsAnswer(p)

SpecConc == InitConc /\ [][NextConc]_vars

\* one webhook call with one event, every try of httpx_retry a step of its own
InitRetry ==
    /\ TENANT_ID = <<"T">>
    /\ ledger \in {{}, db_salvar_excluido({}, 1, <<"1">>, 1)}
    /\ tokenCache \in BOOLEAN
    /\ req = [p \in {1} |-> Idle]

\* every step but the arrival of a request: steps of the event loop, answers
\* of the remote systems, ends of sleeps
Andamento ==
    \/ \E p \in Procs : TokenCheck(p)
    \/ \E p \in Procs : TokenPost(p)
    \/ \E p \in Procs : Tenant(p)
    \/ \E p \in Procs : NextItem(p)
    \/ \E p \in Procs : Respond(p)
    \/ \E p \in Procs : HttpFalha(p)
    \/ \E p \in Procs : HttpSleep(p)
    \/ \E p \in Procs : PollAnswer(p) /\ Returns(p)
    \/ \E p \in Procs : PollSleep(p)
    \/ \E p \in Procs : NovoClienteAnswer(p) /\ Returns(p)
    \/ \E p \in Procs : NovoTitularAnswer(p)
    \/ \E p \in Procs : NovoMatricAnswer(p) /\ Returns(p)
    \/ \E p \in Procs : NovoDepsAnswer(p)
    \/ \E p \in Procs : DepClienteAnswer(p) /\ Returns(p)
    \/ \E p \in Procs : ExcCarteiraAnswer(p) /\ Returns(p)
    \/ \E p \in Procs : ExcMatricAnswer(p) /\ Returns(p)
    \/ \E p \in Procs : ExcCancelAnswer(p)
    \/ \E p \in Procs : UpdCarteiraAnswer(p) /\ Returns(p)
    \/ \E p \in Procs : UpdMatricAnswer(p) /\ Returns(p)
    \/ \E p \in Procs : UpdDepsAnswer(p)

NextRetry ==
    \/ \E p \in Procs : ReceiveConc(p)
    \/ Andamento

SpecRetry == InitRetry /\ [][NextRetry]_vars

\* a webhook call with a batch of insert and update events of one client
EventosLote ==
    { [operation |-> op, data |-> Data(1, <<"1", "-">>, <<"a">>)] : op \in {"insert", "Update"} }

ReceiveLote(p) ==
    /\ req[p].pc = "idle"
    /\ \E kind \in {"novo", "dep"}, items \in SeqsUpTo(EventosLote, MaxBatch) \ {<<>>} :
          req' = [req EXCEPT ![p] = [Idle EXCEPT !.pc = "token", !.kind = kind, !.items = items]]
    /\ UNCHANGED <<config, ledger, tokenCache>>

NextLive ==
    \/ \E p \in Procs : ReceiveLote(p)
    \/ Andamento

\* the event loop runs every task that is ready, every remote call returns or
\* fails, every sleep ends
SpecLive == InitRetry /\ [][NextLive]_vars /\ WF_vars(Andamento)

----------------------------------------------------------------------------
(* What the claims speak of *)

\* the client ids that have a row in the ledger t
Ids(t) == {row.id_cliente : row \in t}

Has(calls, call) == \E k \in 1..Len(calls) : calls[k] = call

Pos(calls, call) == CHOOSE k \in 1..Len(calls) : calls[k] = call

\* the iteration of request p has just appended its outcome
Finished(p) ==
    /\ req[p].pc = "loop"
    /\ req[p].i >= 1
    /\ Len(req[p].results) = req[p].i

\* the outcome appended last
Last(p) == req[p].results[Len(req[p].results)]

\* the iteration runs process_novo_cliente_item (enrollment path)
Enrolling(p) == req[p].kind = "novo" \/ req[p].loc.reentrada

\* titular submitted, membership number found, dependents (if any) submitted
EnrollOk(l) ==
    /\ "titular" \in l.oks
    /\ l.matricula # <<>>
    /\ l.dependentes_dicts = <<>> \/ "dependentes" \in l.oks

Webhooks == {"novo", "dep"}

UpdPcs == {"upd_carteira", "upd_matric", "upd_deps"}

NovoPcs == {"poll_query", "poll_sleep", "novo_cliente", "novo_titular", "novo_matric", "novo_deps"}

----------------------------------------------------------------------------
(* C1 *)

\* C1, as stated: every event (with a tax id and a client id) whose upstream
\* status is inactive (2) has a cancellation attempted at the back office,
\* whatever its operation and whichever webhook received it, and if the
\* cancellation succeeded the ledger has an entry for the client id.
C1_Original ==
    \A p \in Procs :
        (/\ Finished(p)
         /\ Cpf(req[p]) # <<>> /\ IdCliente(req[p]) # 0
         /\ req[p].loc.upstream = StatusInativo)
            => /\ Has(req[p].loc.calls, "cancelar")
               /\ "cancelar" \in req[p].loc.oks => IdCliente(req[p]) \in Ids(ledger)

\* What the code guarantees in place of C1: only an update item of the dependents webhook whose
\* upstream status is 2 is ever cancelled; for such an item the cancellation
\* is attempted exactly when the registry shows a mapped plan and the back
\* office returned a membership number; and when the cancellation succeeded
\* and the ledger write did not raise, the ledger has an entry for the
\* client id and the outcome is cancelado.
CancelGate ==
    \A p \in Procs :
        LET r == req[p]
            l == req[p].loc
        IN  /\ (Has(l.calls, "cancelar") /\ r.kind \in Webhooks)
                => /\ r.kind = "dep"
                   /\ Lower(Item(r).operation) = "update"
                   /\ l.status_tenex = StatusInativo
            /\ (Finished(p) /\ l.status_tenex = StatusInativo)
                => /\ Has(l.calls, "cancelar") <=> (PlanMapped(l.id_plano) /\ l.matricula # <<>>)
                   /\ ("cancelar" \in l.oks /\ "db_salvar" \in l.oks)
                        => /\ IdCliente(r) \in Ids(ledger)
                           /\ Last(p).status = "cancelado"

\* an inactive client was cancelled and is in the ledger
CancelGateWitness ==
    \E p \in Procs :
        /\ Finished(p)
        /\ req[p].loc.status_tenex = StatusInativo
        /\ "cancelar" \in req[p].loc.oks
        /\ IdCliente(req[p]) \in Ids(ledger)
        /\ Last(p).status = "cancelado"

----------------------------------------------------------------------------
(* C2 *)

----------------------------------------------------------------------------
(* C3 *)

\* C3, as stated: when the poll loop ends without a plan, it has made
\* exactly 5 registry queries and exactly 4 waits, and the outcome is ignorado.
C3_Original ==
    \A p \in Procs :
        LET l == req[p].loc
        IN  (Finished(p) /\ l.queries >= 1 /\ ~l.plano_ok /\ l.raised = "")
                => /\ l.queries = PollAttempts
                   /\ l.sleeps = PollAttempts - 1
                   /\ Last(p).status = "ignorado"

----------------------------------------------------------------------------
(* C4 *)

ExcTexts == {ExcText(call) : call \in {"carteira", "cliente", "matric", "titular",
                                       "dependentes", "cancelar", "db", "index"}}

\* C4: an exception raised by a registry call, a back-office call or a
\* ledger operation while an event is processed ends that event's iteration
\* with an erro outcome appended for that event, the outcomes of the earlier
\* events stay in place, the loop goes on, and a request that passed token
\* acquisition answers "ok" only after every event of the batch was processed.
C4_Isolated ==
    \A p \in Procs :
        LET r == req[p]
        IN  /\ (r.loc.raised # "" /\ r.kind \in Webhooks)
                => /\ Finished(p)
                   /\ Last(p).status = "erro"
                   /\ Last(p).motivo \in ExcTexts
                   /\ \A k \in 1..Len(r.results) : r.results[k].ev = k
            /\ (r.pc = "done" /\ r.kind \in Webhooks)
                => /\ r.response \in {"ok", "erro_token"}
                   /\ r.response = "ok"
                        => r.i = Len(r.items) /\ Len(r.results) = Len(r.items)

\* the first event of a batch failed with an exception and the second event
\* was processed to an outcome that is not an error
C4_Witness ==
    \E p \in Procs :
        /\ req[p].pc = "loop"
        /\ Len(req[p].results) = 2
        /\ req[p].results[1].status = "erro"
        /\ req[p].results[1].motivo \in ExcTexts
        /\ req[p].results[2].status \in {"cadastrado", "cancelado", "dependentes_atualizados"}

----------------------------------------------------------------------------
(* C5 *)

\* C5: in a request that passed token acquisition the k-th outcome was
\* produced by the k-th iteration, there is one outcome for each iteration
\* that ended, and the "ok" response carries exactly one outcome per event.
C5_Ordered ==
    \A p \in Procs :
        LET r == req[p]
        IN  r.kind \in Webhooks =>
            /\ \A k \in 1..Len(r.results) : r.results[k].ev = k
            /\ Len(r.results) =
                   IF r.pc \in {"idle", "token", "token_post", "tenant", "tenant_contract",
                                "loop", "done"}
                   THEN r.i ELSE r.i - 1
            /\ (r.pc = "done" /\ r.response = "ok") => Len(r.results) = Len(r.items)

\* a batch of two events on different branches was answered
C5_Witness ==
    \E p \in Procs :
        /\ req[p].pc = "done" /\ req[p].response = "ok"
        /\ Len(req[p].results) = 2
        /\ req[p].results[1].status = "cancelado"
        /\ req[p].results[2].status = "cadastrado"
        /\ req[p].results[2].reentrada

----------------------------------------------------------------------------
(* C6 *)

\* C6, as stated: every outcome carries the tax id of the event it belongs to.
C6_Original ==
    \A p \in Procs :
        \A k \in 1..Len(req[p].results) :
            req[p].items[k].data.cpf # <<>>
                => /\ req[p].results[k].has_cpf
                   /\ only_digits(req[p].results[k].cpf) = only_digits(req[p].items[k].data.cpf)

----------------------------------------------------------------------------
(* C7 *)

----------------------------------------------------------------------------
(* C8 *)

\* C8, as stated: when the titular submission and the membership lookup
\* succeeded and the dependents submission failed, the outcome differs from
\* the outcome of a failed titular submission.
C8_Original ==
    \A p \in Procs :
        LET l == req[p].loc
        IN  (/\ Finished(p) /\ Enrolling(p)
             /\ "titular" \in l.oks /\ "matric" \in l.oks /\ l.matricula # <<>>
             /\ l.raised = "dependentes")
                => ~(Last(p).status = "erro" /\ Last(p).motivo = ExcText("titular"))

----------------------------------------------------------------------------
(* C9 *)

\* C9: in the enrollment path the membership lookup is issued only after
\* the titular submission returned, and the dependents submission only after
\* the membership lookup returned a membership number; when the titular
\* submission failed the outcome is erro and neither the membership lookup
\* nor the dependents submission was issued.
C9_Order ==
    \A p \in Procs :
        LET l == req[p].loc
        IN  Enrolling(p)
                => /\ Has(l.calls, "matric")
                        => /\ "titular" \in l.oks
                           /\ Pos(l.calls, "titular") < Pos(l.calls, "matric")
                   /\ Has(l.calls, "dependentes")
                        => /\ "matric" \in l.oks /\ l.matricula # <<>>
                           /\ Pos(l.calls, "matric") < Pos(l.calls, "dependentes")
                   /\ (Has(l.calls, "titular") /\ "titular" \notin l.oks /\ req[p].pc # "novo_titular")
                        => /\ Finished(p)
                           /\ Last(p).status = "erro"
                           /\ ~Has(l.calls, "matric")
                           /\ ~Has(l.calls, "dependentes")

\* the titular submission failed and the event ended in erro
C9_Witness ==
    \E p \in Procs :
        /\ Finished(p) /\ Enrolling(p)
        /\ Has(req[p].loc.calls, "titular")
        /\ "titular" \notin req[p].loc.oks
        /\ Last(p).status = "erro"
        /\ Last(p).motivo = ExcText("titular")

\* a full enrollment: the three calls were issued in order and returned
C9_WitnessOrder ==
    \E p \in Procs :
        /\ Finished(p) /\ Enrolling(p)
        /\ {"titular", "matric", "dependentes"} \subseteq req[p].loc.oks

----------------------------------------------------------------------------
(* C10 *)

\* C10: when the titular submission succeeded and the membership lookup
\* returned no membership number, the outcome is erro, its reason is not the
\* reason of a failed titular submission, and no dependents submission was
\* issued; unless a later ledger removal raised, the reason says that the
\* titular was created and no membership number came back.
C10_NoMatricula ==
    \A p \in Procs :
        LET l == req[p].loc
        IN  (/\ Finished(p) /\ Enrolling(p)
             /\ "titular" \in l.oks /\ "matric" \in l.oks /\ l.matricula = <<>>)
                => /\ Last(p).status = "erro"
                   /\ Last(p).motivo # ExcText("titular")
                   /\ ~Has(l.calls, "dependentes")
                   /\ l.raised = ""
                        => Last(p).motivo = "Titular criado mas matricula nao retornou (BBA_MATRIC vazio)"

\* the titular was created and the lookup returned no membership number
C10_Witness ==
    \E p \in Procs :
        /\ Finished(p) /\ Enrolling(p)
        /\ "titular" \in req[p].loc.oks /\ "matric" \in req[p].loc.oks
        /\ req[p].loc.matricula = <<>>
        /\ req[p].loc.raised = ""
        /\ Last(p).status = "erro"

----------------------------------------------------------------------------
(* C11 *)

\* C11, as stated: at every entry point that cancels by tax id, when the
\* back office has no membership number for the tax id the result is
\* ignorado, not erro, and no cancel call is issued and no ledger write made.
C11_Original ==
    \A p \in Procs :
        LET r == req[p]
            l == req[p].loc
        IN  /\ (/\ Finished(p) /\ r.kind = "dep" /\ l.status_tenex = StatusInativo
                /\ "matric" \in l.oks /\ l.matricula = <<>>)
                    => /\ Last(p).status = "ignorado"
                       /\ ~Has(l.calls, "cancelar") /\ ~Has(l.calls, "db_salvar")
            /\ (/\ r.kind = "cancelar" /\ r.pc = "done"
                /\ "matric" \in l.oks /\ l.matricula = <<>>)
                    => /\ r.response # "erro"
                       /\ ~Has(l.calls, "cancelar")

----------------------------------------------------------------------------
(* C12 *)

\* C12, as stated: an event rejected because its titular lacks a name or a
\* tax id has outcome erro, and no remote call was made for it.
C12_Original ==
    \A p \in Procs :
        (/\ Finished(p) /\ req[p].kind = "novo"
         /\ Last(p).motivo = "Titular invalido (sem nome/CPF)")
            => /\ Last(p).status = "erro"
               /\ req[p].loc.calls = <<>>

----------------------------------------------------------------------------
(* C13 *)

\* the back-office submissions
Submissions == {"titular", "dependentes", "cancelar"}

\* the plan id read from the registry has no entry in the mapping table
Unmapped(l) == l.id_plano # 0 /\ ~PlanMapped(l.id_plano)

\* C13, as stated: the step that ends the iteration of an event whose plan
\* id is unmapped (no call having raised) appends ignorado, no submission
\* was sent to the back office, and the step leaves the ledger as it was.
C13_Original ==
    [][\A p \in Procs :
          (Finished(p)' /\ Unmapped(req[p].loc') /\ req[p].loc'.raised = "")
              => /\ Last(p)'.status = "ignorado"
                 /\ \A call \in Submissions : ~Has(req[p].loc'.calls, call)
                 /\ ledger' = ledger]_vars

----------------------------------------------------------------------------
(* C14 *)

\* the record of a registry answer whose tax id has the digits of cpf, the
\* first one of the answer when there is none
PolledRecord(carteira, cpf) ==
    LET hits == {k \in 1..Len(carteira) : only_digits(carteira[k].cpf) = only_digits(cpf)}
    IN  IF hits = {} THEN carteira[1]
        ELSE carteira[CHOOSE k \in hits : \A j \in hits : k <= j]

\* C14: while the titular submission of an enrollment is in flight, the
\* poll has ended with a plan, and the product code and the version of the
\* submission are those of the mapping table's entry for the first plan id
\* of the polled record.
C14_Plano ==
    \A p \in Procs :
        LET l == req[p].loc
        IN  req[p].pc = "novo_titular"
                => /\ l.plano_ok /\ l.carteira # <<>>
                   /\ LET planos == PolledRecord(l.carteira, Cpf(req[p])).planos_contratados
                      IN  /\ planos # <<>>
                          /\ planos[1] \in DOMAIN PLAN_MAPPING_JSON
                          /\ l.payload.BBA_CODPRO = PLAN_MAPPING_JSON[planos[1]].codpro
                          /\ l.payload.BBA_VERSAO = PLAN_MAPPING_JSON[planos[1]].versao
                          /\ l.payload.B2N_CODPRO = PLAN_MAPPING_JSON[planos[1]].codpro

\* an insert event's titular is submitted with the plan of the record that
\* matches the tax id, the first record of the answer having an unmapped plan
C14_Witness ==
    \E p \in Procs :
        /\ req[p].pc = "novo_titular" /\ req[p].kind = "novo"
        /\ Len(req[p].loc.carteira) = 2
        /\ req[p].loc.carteira[1].planos_contratados = <<99>>
        /\ req[p].loc.payload.BBA_CODPRO = "0066"
        /\ req[p].loc.payload.BBA_VERSAO = "001"

----------------------------------------------------------------------------
(* C15 *)

\* the batch of the scenario: client 1 with an insert, client 2 with an update
Batch15 ==
    << [operation |-> "insert", data |-> Data(1, <<"1", "-">>, <<"a">>)],
       [operation |-> "Update", data |-> Data(2, <<"2">>, <<"a">>)] >>

\* C15, as stated, for one webhook call with this batch whose second client
\* is inactive upstream: when the first outcome is cadastrado the second is
\* cancelado and client 2 is in the ledger, and a cancelado second outcome
\* comes after a cadastrado first one.
C15_Original ==
    \A p \in Procs :
        (/\ Finished(p) /\ req[p].i = 2 /\ req[p].items = Batch15
         /\ req[p].loc.upstream = StatusInativo)
            => /\ req[p].results[1].status = "cadastrado"
                    => Last(p).status = "cancelado" /\ 2 \in Ids(ledger)
               /\ Last(p).status = "cancelado"
                    => req[p].results[1].status = "cadastrado"

----------------------------------------------------------------------------
(* C16 *)

BeforeLoop == {"idle", "token", "token_post", "tenant", "tenant_contract"}

\* C16, as stated: a webhook call whose token or whose tenant could not be
\* obtained is answered with a top-level error and none of its events is
\* processed.
C16_Original ==
    \A p \in Procs :
        LET r == req[p]
        IN  /\ (r.pc = "done" /\ r.response = "erro_token")
                => r.results = <<>> /\ r.i = 0
            /\ (r.kind \in Webhooks /\ r.pc \notin BeforeLoop /\ r.tenantid = <<>>)
                => /\ r.pc = "done" /\ r.response # "ok"
                   /\ r.results = <<>> /\ r.i = 0

----------------------------------------------------------------------------
(* C17 *)

ClientIds == {d.id : d \in Datas}

\* this step receives the successful answer of the cancellation of client id
CancelSucceeds(id) ==
    \E p \in Procs :
        /\ req[p].pc = "exc_cancel" /\ IdCliente(req[p]) = id
        /\ "cancelar" \in req[p].loc'.oks

\* this step ends the processing of a reactivation event of client id
ReactivationEnds(id) ==
    \E p \in Procs :
        /\ req[p].loc.reentrada /\ req[p].pc # "loop" /\ IdCliente(req[p]) = id
        /\ req[p].pc' = "loop"

\* ... and the removal of the ledger row raised in it
RemovalRaised(id) ==
    \E p \in Procs :
        /\ req[p].loc.reentrada /\ IdCliente(req[p]) = id
        /\ req[p].loc'.raised = "db" /\ "db_remover" \notin req[p].loc'.oks

\* C17, as stated: a client id enters the ledger only in a step in which
\* its cancellation succeeded at the back office, every step that ends the
\* processing of a reactivation event of a client leaves the ledger without
\* that client, and no other step (a failed or skipped cancellation, a
\* lookup) changes the ledger.
C17_Original ==
    [][/\ \A id \in ClientIds :
            /\ (id \in Ids(ledger') /\ id \notin Ids(ledger)) => CancelSucceeds(id)
            /\ ReactivationEnds(id) => id \notin Ids(ledger')
            /\ (id \in Ids(ledger) /\ id \notin Ids(ledger')) => ReactivationEnds(id)
       /\ ledger' # ledger
            => \E id \in ClientIds : CancelSucceeds(id) \/ ReactivationEnds(id)]_vars

\* C17, amended: as C17, except that a reactivation event whose ledger
\* removal raises ends with the client still in the ledger (and with an erro
\* outcome).
C17_Ledger ==
    [][/\ \A id \in ClientIds :
            /\ (id \in Ids(ledger') /\ id \notin Ids(ledger)) => CancelSucceeds(id)
            /\ ReactivationEnds(id)
                 => IF RemovalRaised(id)
                    THEN /\ ledger' = ledger
                         /\ \E p \in Procs : Finished(p)' /\ Last(p)'.status = "erro"
                    ELSE id \notin Ids(ledger')
            /\ (id \in Ids(ledger) /\ id \notin Ids(ledger')) => ReactivationEnds(id)
       /\ ledger' # ledger
            => \E id \in ClientIds : CancelSucceeds(id) \/ ReactivationEnds(id)]_vars

\* a batch cancelled a client and then processed its reactivation: the
\* ledger, which held the client in between, is empty again
C17_Witness ==
    \E p \in Procs :
        /\ Finished(p) /\ req[p].i = 2
        /\ req[p].results[1].status = "cancelado"
        /\ req[p].loc.reentrada /\ "db_remover" \in req[p].loc.oks
        /\ IdCliente(req[p]) = req[p].items[1].data.id
        /\ ledger = {}

----------------------------------------------------------------------------
(* C18 *)

\* the tax ids (digits) of the webhook items
CpfDigits == {only_digits(d.cpf) : d \in Datas}

\* C18: the ledger holds at most one row per client id; and on every ledger
\* the handlers leave behind (looked at between two requests), recording a
\* client again leaves one row for it, the one recorded last, and the key
\* set of a single record, and a removal leaves no row for that client and
\* every other row in place.
C18_Upsert ==
    /\ \A a, b \in ledger : a.id_cliente = b.id_cliente => a = b
    /\ (\A p \in Procs : req[p].pc = "idle") =>
       \A id \in ClientIds, c1, c2 \in CpfDigits, t1, t2 \in Times :
          LET once  == db_salvar_excluido(ledger, id, c2, t2)
              twice == db_salvar_excluido(db_salvar_excluido(ledger, id, c1, t1), id, c2, t2)
          IN  /\ twice = once
              /\ Ids(twice) = Ids(ledger) \cup {id}
              /\ db_buscar_excluido(twice, id)
                    = {[id_cliente |-> id, cpf |-> c2, data_exclusao |-> t2]}
              /\ db_buscar_excluido(db_remover_excluido(twice, id), id) = {}
              /\ db_remover_excluido(twice, id) = {row \in ledger : row.id_cliente # id}

\* a client that was in the ledger was cancelled again: its row carries the
\* later time
C18_Witness ==
    \E p \in Procs :
        /\ Finished(p) /\ req[p].i = 2
        /\ req[p].results[1].status = "cancelado" /\ Last(p).status = "cancelado"
        /\ IdCliente(req[p]) = req[p].items[1].data.id
        /\ \E row \in ledger : row.id_cliente = IdCliente(req[p]) /\ row.data_exclusao = 2
        /\ Cardinality(ledger) = 1

----------------------------------------------------------------------------
(* C19 *)

\* the iteration is one of an update event of an active client that is not in
\* the ledger and has a mapped plan; no call raised, and the membership
\* lookup, where it was made, returned a membership number
RefreshCase(r) ==
    /\ r.kind = "dep" /\ Lower(Item(r).operation) = "update"
    /\ r.loc.status_tenex \notin {-1, StatusInativo}
    /\ "db_buscar" \in r.loc.oks /\ ~r.loc.excluido
    /\ PlanMapped(r.loc.id_plano)
    /\ r.loc.raised = ""
    /\ "matric" \in r.loc.oks => r.loc.matricula # <<>>

\* C19, as stated: the step that ends such an iteration appends
\* dependentes_atualizados, the dependents were submitted against the
\* membership number, no titular was submitted and the ledger is left as it
\* was, whatever the dependents list, the empty one included.
C19_Original ==
    [][\A p \in Procs :
          (Finished(p)' /\ ~Finished(p) /\ RefreshCase(req[p]'))
              => /\ Last(p)'.status = "dependentes_atualizados"
                 /\ "dependentes" \in req[p].loc'.oks
                 /\ req[p].loc'.matricula # <<>>
                 /\ ~Has(req[p].loc'.calls, "titular")
                 /\ ledger' = ledger]_vars

----------------------------------------------------------------------------
(* C20 *)

\* the registry answered with a record, and the polled record has a plan
PolledPlan(carteira, cpf) ==
    carteira # <<>> /\ PolledRecord(carteira, cpf).planos_contratados # <<>>

\* C20, as stated: an attempt of the poll loop fails only on an answer whose
\* polled record has no plan, the loop is left with a plan only on an
\* answer whose polled record has one, and an enrollment whose poll
\* succeeded never ends in the error of indexing an empty plan list.
C20_Original ==
    \A p \in Procs :
        LET r == req[p]
            l == req[p].loc
        IN  /\ r.pc = "poll_sleep" => ~PolledPlan(l.carteira, Cpf(r))
            /\ (r.pc \in NovoPcs /\ l.plano_ok) => PolledPlan(l.carteira, Cpf(r))
            /\ (Finished(p) /\ l.plano_ok) => l.raised # "index"

----------------------------------------------------------------------------
(* C21 *)

\* a non-principal contact without a tax id
SemCpf(c) == c.principal = "0" /\ c.cpf = <<>>

ComCpfOuPrincipal(c) == ~SemCpf(c)

\* the contact list without such contacts
Fora(contatos) == SelectSeq(contatos, ComCpfOuPrincipal)

\* C21: no dependent of a submitted set lacks a tax id; in the normal flow
\* of the update webhook the set is the one of the contact list without the
\* non-principal contacts that have no tax id; and for every contact list the
\* registry answers with, the titular, its validity and the dependents set
\* are those of the list without such contacts, so that the outcome of the
\* event is the one it has without them.
C21_SemCpf ==
    /\ \A p \in Procs :
          LET l == req[p].loc
          IN  /\ \A k \in 1..Len(l.dependentes_dicts) : l.dependentes_dicts[k].cpf # <<>>
              /\ req[p].pc \in {"upd_matric", "upd_deps"}
                    => /\ l.dependentes_dicts = DependentesDicts(Fora(l.contatos))
                       /\ Len(l.dependentes_dicts) = Len(Fora(l.contatos)) - Len(Principal(l.contatos))
    /\ (\A p \in Procs : req[p].pc = "idle") =>
          \A d \in Datas : \A a \in ContatosAnswers(only_digits(d.cpf)) :
              /\ DependentesDicts(a) = DependentesDicts(Fora(a))
              /\ TitularDict(a, d) = TitularDict(Fora(a), d)

\* the dependents of a contact list that has a contact without a tax id are
\* being submitted without it
C21_Witness ==
    \E p \in Procs :
        /\ req[p].pc = "upd_deps"
        /\ \E k \in 1..Len(req[p].loc.contatos) : SemCpf(req[p].loc.contatos[k])
        /\ Len(req[p].loc.dependentes_dicts) = 1

----------------------------------------------------------------------------
(* C22: two requests about the same client *)

\* request p found the client's ledger row and has not yet come to the removal
Reactivating(p) == req[p].loc.reentrada /\ req[p].pc \in NovoPcs

\* C22: between the ledger lookup of one request and the removal that follows
\* it, no step of another request operates on the ledger, so the ledger is never
\* changed under a request that waits between the two
C22_Original ==
    [][\A p \in Procs : (Reactivating(p) /\ req'[p] = req[p]) => ledger' = ledger]_vars

----------------------------------------------------------------------------
(* C23: the token cache under concurrent callers *)

\* the callers of medicar_get_token whose request to the token endpoint is in flight
Refreshing == {p \in Procs : req[p].pc = "token_post"}

\* C23: callers that find no valid cached token share one refresh: at most one
\* request to the token endpoint is in flight at a time
C23_Original == Cardinality(Refreshing) <= 1

----------------------------------------------------------------------------
(* C24: a request that waits between two polls *)

\* request q has a step it can take now
CanStep(q) ==
    ENABLED (\/ ReceiveConc(q) \/ Health(q) \/ TokenCheck(q) \/ TokenPost(q) \/ Tenant(q)
             \/ NextItem(q) \/ Respond(q) \/ PollAnswer(q) \/ PollSleep(q)
             \/ NovoClienteAnswer(q) \/ NovoTitularAnswer(q) \/ NovoMatricAnswer(q)
             \/ NovoDepsAnswer(q) \/ DepClienteAnswer(q) \/ ExcCarteiraAnswer(q)
             \/ ExcMatricAnswer(q) \/ ExcCancelAnswer(q) \/ UpdCarteiraAnswer(q)
             \/ UpdMatricAnswer(q) \/ UpdDepsAnswer(q))

\* C24: while a request waits in the 60-second sleep between two polls, every
\* other request that has not returned yet can take its next step: a webhook
\* call and a health check can start, a started request can go on with its next
\* remote call or ledger operation
C24_NaoBloqueia ==
    \A p \in Procs : \A q \in Procs \ {p} :
        (req[p].pc = "poll_sleep" /\ req[q].pc # "done")
            => /\ CanStep(q)
               /\ req[q].pc = "idle" => (ENABLED ReceiveConc(q)) /\ (ENABLED Health(q))

\* one request sleeps before its second poll and the other has run the whole
\* cancellation, ledger write included, and returned
C24_Witness ==
    \E p \in Procs : \E q \in Procs \ {p} :
        /\ req[p].pc = "poll_sleep"
        /\ req[p].loc.sleeps = 0
        /\ req[q].pc = "done"
        /\ req[q].response = "ok"
        /\ Len(req[q].results) = 1
        /\ req[q].results[1].status = "cancelado"

----------------------------------------------------------------------------
(* C25: retries of the outbound calls *)

HttpCalls == {"carteira", "cliente", "matric", "titular", "dependentes", "cancelar"}

\* C25: an event ends in erro over a failed outbound call (registry lookups,
\* membership lookup, titular submission, dependents submission, cancellation)
\* only after that call was tried three times
C25_Original ==
    \A p \in Procs :
        (Finished(p) /\ req[p].loc.raised \in HttpCalls) => req[p].loc.retry_i = tries - 1

----------------------------------------------------------------------------
(* C26: termination *)

\* the loops of an iteration stay within their bounds
Limites(l) ==
    /\ l.tentativa <= PollAttempts
    /\ l.queries <= PollAttempts
    /\ l.sleeps <= PollAttempts
    /\ l.retry_i < tries

\* C26: if every remote call returns or fails, every webhook request that
\* arrived returns; the poll loop makes at most five attempts and a retried
\* call at most three tries; a request that passed the token answers with
\* exactly one outcome per event, in the order of the events
C26_Termina ==
    /\ \A p \in {1} : (req[p].pc # "idle") ~> (req[p].pc = "done")
    /\ [](\A p \in Procs :
            /\ Limites(req[p].loc)
            /\ Len(req[p].results) <= req[p].i
            /\ req[p].i <= Len(req[p].items)
            /\ \A k \in 1..Len(req[p].results) : req[p].results[k].ev = k
            /\ (req[p].pc = "done" /\ req[p].response = "ok")
                  => Len(req[p].results) = Len(req[p].items))

\* the second event of a batch ends after the poll loop ran out: five queries
\* and five waits
C26_Witness ==
    \E p \in Procs :
        /\ Finished(p)
        /\ req[p].i = 2
        /\ Last(p).status = "ignorado"
        /\ req[p].loc.sleeps = PollAttempts
        /\ req[p].loc.queries = PollAttempts

----------------------------------------------------------------------------
(* C27: the ledger entry after a reactivation *)

\* C27, as stated: when the iteration of a client found in the ledger ends,
\* whatever its outcome, the client's entry is gone and the outcome carries
\* the reentrada flag
C27_Original ==
    \A p \in Procs :
        (req[p].loc.reentrada /\ Finished(p))
            => /\ Last(p).reentrada
               /\ IdCliente(req[p]) \notin Ids(ledger)

\* C27, amended: when the iteration of a client found in the ledger ends and
\* the removal did not raise, the entry is gone and the outcome, cadastrado,
\* ignorado or erro, carries the reentrada flag; when the removal raised, the
\* outcome is erro without the flag and the entry is still there.  An event of
\* the same client that follows a flagged outcome in the batch does not find
\* the client in the ledger.
C27_Removida ==
    \A p \in Procs :
        LET r == req[p]
            l == req[p].loc
        IN  /\ (l.reentrada /\ Finished(p))
                => IF "db_remover" \in l.oks
                   THEN /\ Last(p).reentrada
                        /\ Last(p).status \in {"cadastrado", "ignorado", "erro"}
                        /\ IdCliente(r) \notin Ids(ledger)
                   ELSE /\ l.raised = "db"
                        /\ Last(p).status = "erro"
                        /\ ~Last(p).reentrada
                        /\ IdCliente(r) \in Ids(ledger)
            /\ (/\ r.kind = "dep" /\ r.i >= 2 /\ Len(r.results) >= r.i - 1
                /\ r.results[r.i - 1].reentrada
                /\ r.items[r.i - 1].data.id = r.items[r.i].data.id)
                => ~l.excluido

\* a reactivation whose re-enrollment ended in ignorado or erro: the entry is
\* gone and the outcome is flagged
C27_Witness ==
    \E p \in Procs :
        /\ Finished(p)
        /\ req[p].loc.reentrada
        /\ Last(p).status = "ignorado"
        /\ Last(p).reentrada
        /\ IdCliente(req[p]) \notin Ids(ledger)
        /\ req[p].i = 2
        /\ req[p].results[1].status = "cancelado"

----------------------------------------------------------------------------
(* C28: the insert webhook and the ledger *)

LedgerCalls == {"db_buscar", "db_salvar", "db_remover"}

\* C28: no step of a request to the insert webhook changes the ledger; such a
\* request issues no ledger operation and reads no upstream status, so a
\* client of the ledger that an insert event enrolls stays in the ledger; and
\* the lookup of an update event finds a client exactly when the ledger holds
\* it, and then runs the enrollment path again.
C28_Frame ==
    [][\A p \in Procs :
          /\ (req[p].kind = "novo" \/ req'[p].kind = "novo") => ledger' = ledger
          /\ req'[p].kind = "novo"
                => /\ req'[p].loc.status_tenex = -1
                   /\ ~req'[p].loc.excluido
                   /\ ~req'[p].loc.reentrada
                   /\ \A call \in LedgerCalls : ~Has(req'[p].loc.calls, call)
                   /\ \A k \in 1..Len(req'[p].results) : ~req'[p].results[k].reentrada
          /\ (req[p].pc = "dep_cliente" /\ "db_buscar" \in req'[p].loc.oks)
                => /\ req'[p].loc.excluido = (IdCliente(req[p]) \in Ids(ledger))
                   /\ req'[p].loc.excluido => req'[p].loc.reentrada /\ req'[p].pc = "poll_query"]_vars

\* an insert event has enrolled a client that is in the ledger, and the
\* client is still there
C28_Witness ==
    \E p \in Procs :
        /\ req[p].kind = "novo"
        /\ Finished(p)
        /\ Last(p).status = "cadastrado"
        /\ IdCliente(req[p]) \in Ids(ledger)

----------------------------------------------------------------------------
(* C29: the plan check before a cancellation *)

\* C29, as stated: for an inactive client the cancellation is issued only
\* with a mapped plan; when the registry answered and gave no plan for the
\* client, or a plan that is not mapped, the outcome is ignorado, no
\* membership lookup and no cancellation were issued and the ledger was not
\* written
C29_Original ==
    \A p \in Procs :
        LET r == req[p]
            l == req[p].loc
        IN  (r.kind = "dep" /\ Finished(p) /\ l.status_tenex = StatusInativo)
                => /\ Has(l.calls, "cancelar") => PlanMapped(l.id_plano)
                   /\ ("carteira" \in l.oks /\ ~PlanMapped(l.id_plano))
                        => /\ Last(p).status = "ignorado"
                           /\ ~Has(l.calls, "matric")
                           /\ ~Has(l.calls, "cancelar")
                           /\ ~Has(l.calls, "db_salvar")

----------------------------------------------------------------------------
(* C30: which status is inactive *)

ExcPcs == {"exc_carteira", "exc_matric", "exc_cancel"}

====
